---- MODULE Spec2Model ----
(***************************************************************************)
(* Model of the Telegram reminder bot (src/bot.py): the resolver           *)
(* _parse_when_and_message, the command handler r_cmd, the delivery        *)
(* callback _send_reminder, and the one-shot timer r_cmd registers with.   *)
(*                                                                         *)
(* Text is a sequence of one-character strings.  Time is counted in ticks, *)
(* Res ticks to the second, so that sub-second instants exist.             *)
(***************************************************************************)
EXTENDS Integers, Sequences, FiniteSets, TLC

VARIABLES
    raw,        \* the command text handed to _parse_when_and_message
    result,     \* what _parse_when_and_message returned or raised
    clock,      \* the current time, in ticks
    jobs,       \* the jobs registered with the job queue, in order
    delivered,  \* the jobs _send_reminder was called for, in order
    last        \* the last execution of r_cmd

vars == <<raw, result, clock, jobs, delivered, last>>

-----------------------------------------------------------------------------
(* Bounds *)

\* longest command text drawn as an input of the resolver
MaxLen == 5
\* ticks per second
Res == 2
\* jobs the timer holds at most
MaxJobs == 2
\* ticks beyond the minimum delay that a request may resolve to
Horizon == 2
\* ticks that may elapse between r_cmd's clock read and the registration
MaxLag == 1

-----------------------------------------------------------------------------
(* Text: Python's str operations used by _parse_when_and_message *)

\* the characters command texts are made of: "d" is a word dateparser reads
\* as a date/time, "x" a word it does not
Chars == {"/", "r", " ", "|", ",", "d", "x"}

Whitespace == {" "}

\* the characters of strip(" ,-–—:;")
BoundaryChars == {" ", ",", "-", "endash", "emdash", ":", ";"}

\* the placeholder message "Rappel"
Placeholder == <<"R", "a", "p", "p", "e", "l">>

RECURSIVE LStrip(_, _)
LStrip(s, cs) ==
    IF s # <<>> /\ Head(s) \in cs THEN LStrip(Tail(s), cs) ELSE s

RECURSIVE RStrip(_, _)
RStrip(s, cs) ==
    IF s # <<>> /\ s[Len(s)] \in cs
    THEN RStrip(SubSeq(s, 1, Len(s) - 1), cs)
    ELSE s

\* str.strip(chars)
StripChars(s, cs) == RStrip(LStrip(s, cs), cs)

\* str.strip()
Strip(s) == StripChars(s, Whitespace)

\* re.sub(r"^/r\s*", "", text, flags=re.IGNORECASE)
RemoveCommand(text) ==
    IF Len(text) >= 2 /\ text[1] = "/" /\ text[2] \in {"r", "R"}
    THEN LStrip(SubSeq(text, 3, Len(text)), Whitespace)
    ELSE text

\* c in text
Contains(text, c) == \E i \in 1..Len(text) : text[i] = c

\* index of the first c at or after i, 0 when there is none
RECURSIVE Find(_, _, _)
Find(text, c, i) ==
    IF i > Len(text) THEN 0
    ELSE IF text[i] = c THEN i
    ELSE Find(text, c, i + 1)

\* index of the last c at or before i, 0 when there is none
RECURSIVE FindLast(_, _, _)
FindLast(text, c, i) ==
    IF i < 1 THEN 0
    ELSE IF text[i] = c THEN i
    ELSE FindLast(text, c, i - 1)

\* text.rsplit(c, 1): what a split at the last separator would give
SplitLast(text, c) ==
    LET i == FindLast(text, c, Len(text))
    IN  <<SubSeq(text, 1, i - 1), SubSeq(text, i + 1, Len(text))>>

\* text.split(c, 1), for a text that contains c
SplitOnce(text, c) ==
    LET i == Find(text, c, 1)
    IN  <<SubSeq(text, 1, i - 1), SubSeq(text, i + 1, Len(text))>>

\* whether p occurs in text at index i
OccursAt(text, i, p) ==
    /\ i + Len(p) - 1 <= Len(text)
    /\ SubSeq(text, i, i + Len(p) - 1) = p

\* text.replace(old, ""): every non-overlapping occurrence, left to right
RECURSIVE Remove(_, _)
Remove(text, old) ==
    IF text = <<>> THEN <<>>
    ELSE IF OccursAt(text, 1, old)
         THEN Remove(SubSeq(text, Len(old) + 1, Len(text)), old)
         ELSE <<Head(text)>> \o Remove(Tail(text), old)

-----------------------------------------------------------------------------
(* dateparser, the external date/time parser *)

\* the phrases dateparser reads as a date/time ("demain", "demain 14h")
DatePhrases == {<<"d">>, <<"d", " ", "d">>}

\* dateparser.parse(when_part) returns a datetime (TRUE) or None (FALSE)
DateParserParse(when_part) == when_part \in DatePhrases

\* the longest date phrase that starts at index i, <<>> when there is none
MatchAt(text, i) ==
    LET here == {p \in DatePhrases : OccursAt(text, i, p)}
    IN  IF here = {} THEN <<>>
        ELSE CHOOSE p \in here : \A q \in here : Len(q) <= Len(p)

\* search_dates(text): the matched phrases, left to right
RECURSIVE SearchFrom(_, _)
SearchFrom(text, i) ==
    IF i > Len(text) THEN <<>>
    ELSE LET m == MatchAt(text, i)
         IN  IF m # <<>>
             THEN <<m>> \o SearchFrom(text, i + Len(m))
             ELSE SearchFrom(text, i + 1)

SearchDates(text) == SearchFrom(text, 1)

-----------------------------------------------------------------------------
(* _parse_when_and_message *)

\* a successful return (the instant dt is an input of r_cmd, see RCmd)
Parsed(human_when, msg) ==
    [kind |-> "ok", human_when |-> human_when, msg |-> msg]

\* raise ValueError(why)
ParseError(why) == [kind |-> why, human_when |-> <<>>, msg |-> <<>>]

ParseErrors == {"empty_message", "unparseable", "not_found"}

NotCalled == [kind |-> "not_called", human_when |-> <<>>, msg |-> <<>>]

\* the fallback: find a date expression inside the text
ParseImplicit(text) ==
    LET found == SearchDates(text)
    IN  IF found = <<>> THEN ParseError("not_found")
        ELSE LET match_text == found[1]
                 msg == StripChars(Remove(text, match_text), BoundaryChars)
             IN  Parsed(match_text, IF msg = <<>> THEN Placeholder ELSE msg)

\* the two segments of "<when> | <message>", each stripped
Segments(text) ==
    LET p == SplitOnce(text, "|") IN <<Strip(p[1]), Strip(p[2])>>

\* a delimited parse that searches the text when the when-part is not a date
ParseDelimitedOrSearch(text) ==
    LET when_part == Segments(text)[1]
        msg == Segments(text)[2]
    IN  IF msg = <<>> THEN ParseError("empty_message")
        ELSE IF ~DateParserParse(when_part) THEN ParseImplicit(text)
        ELSE Parsed(when_part, msg)

\* the preferred format "<when> | <message>"
ParseDelimited(text) ==
    LET when_part == Segments(text)[1]
        msg == Segments(text)[2]
    IN  IF msg = <<>> THEN ParseError("empty_message")
        ELSE IF ~DateParserParse(when_part) THEN ParseError("unparseable")
        ELSE Parsed(when_part, msg)

\* the text after the command: raw.strip(), "/r" removed, stripped again
CommandText(r) == Strip(RemoveCommand(Strip(r)))

ParseWhenAndMessage(r) ==
    LET text == CommandText(r)
    IN  IF Contains(text, "|") THEN ParseDelimited(text)
        ELSE ParseImplicit(text)

-----------------------------------------------------------------------------
(* r_cmd: validation, registration with the job queue, replies *)

\* the threshold of "if delay_seconds < 5", in seconds
MinDelaySeconds == 5

\* the threshold in ticks
MinDelay == MinDelaySeconds * Res

\* the latest instant a request resolves to, and the latest clock value
MaxWhen == MinDelay + Horizon
MaxClock == MaxWhen + MaxLag

\* the instants dateparser may resolve a phrase to: from just under the
\* minimum delay after time 0 on (and so in the past once time has passed)
Instants == (MinDelay - 1)..MaxWhen

\* update.effective_chat.id: a private chat and a group (negative id)
ChatIds == {1, -1}

\* the command texts r_cmd receives: one the resolver accepts, one it rejects
Requests ==
    { <<"/", "r", " ", "d", "|", "x">>,
      <<"/", "r", " ", "x", "|", "d">> }

\* _parse_when_and_message(update.message.text) for each of them
Resolved == [r \in Requests |-> ParseWhenAndMessage(r)]

\* a delay check that also rejects a delay of exactly the threshold
TooSoonInclusive(delay_seconds) == delay_seconds <= MinDelay

\* if delay_seconds < 5: raise ValueError
TooSoon(delay_seconds) == delay_seconds < MinDelay

\* str(n) for an integer n
RECURSIVE Digits(_)
Digits(n) ==
    LET d == <<"0", "1", "2", "3", "4", "5", "6", "7", "8", "9">>[(n % 10) + 1]
    IN  IF n < 10 THEN <<d>> ELSE Digits(n \div 10) \o <<d>>

Str(n) == IF n < 0 THEN <<"-">> \o Digits(-n) ELSE Digits(n)

\* int(when_utc.timestamp()): whole seconds, truncated toward zero
IntTimestamp(when) ==
    IF when >= 0 THEN when \div Res ELSE -((-when) \div Res)

\* a job name that leaves the chat out
JobNameNoChat(chat_id, when) ==
    <<"reminder", "-">> \o Str(IntTimestamp(when))

\* f"reminder-{chat_id}-{int(when_utc.timestamp())}"
JobName(chat_id, when) ==
    <<"reminder", "-">> \o Str(chat_id) \o <<"-">> \o Str(IntTimestamp(when))

\* the job the queue holds; interval 0 is a one-shot job
NewJob(delay_seconds, interval, chat_id, msg, name, when, registered_at) ==
    [ name     |-> name,
      chat_id  |-> chat_id,
      msg      |-> msg,
      when     |-> when,
      due      |-> registered_at + delay_seconds,
      interval |-> interval,
      state    |-> "Pending",
      runs     |-> 0 ]

\* job_queue.run_repeating(..., interval=delay_seconds)
RunRepeating(delay_seconds, chat_id, msg, name, when, registered_at) ==
    NewJob(delay_seconds, delay_seconds, chat_id, msg, name, when, registered_at)

\* context.job_queue.run_once(_send_reminder, when=delay_seconds, data, name)
RunOnce(delay_seconds, chat_id, msg, name, when, registered_at) ==
    NewJob(delay_seconds, 0, chat_id, msg, name, when, registered_at)

\* the exception raised inside r_cmd's try block, "none" when there is none
Outcome(parse, delay_seconds, timer_ok, confirm_ok) ==
    IF parse.kind # "ok" THEN "ParseError"
    ELSE IF TooSoon(delay_seconds) THEN "ValidationError"
    ELSE IF ~timer_ok THEN "RegistrationError"
    ELSE IF ~confirm_ok THEN "ReplyError"
    ELSE "none"

\* a handler that registers the job before it checks the delay
ReachesRunOnceUnchecked(parse, delay_seconds) == parse.kind = "ok"

\* whether r_cmd gets to the run_once call: the parse and the check passed
ReachesRunOnce(parse, delay_seconds) ==
    parse.kind = "ok" /\ ~TooSoon(delay_seconds)

\* what the user is sent: the confirmation, or from the except branch the
\* "not understood" help (that reply is taken to go through)
Reply(outcome) ==
    IF outcome = "none" THEN "confirmation" ELSE "not_understood"

\* the exception that leaves r_cmd: "except Exception" catches every one
Raised(outcome) == "none"

NoRequest ==
    [handled |-> FALSE, outcome |-> "none", delay |-> 0, reply |-> "none",
     scheduled |-> FALSE, raised |-> "none"]

InitScheduler ==
    /\ clock = 0
    /\ jobs = <<>>
    /\ delivered = <<>>
    /\ last = NoRequest

Init ==
    /\ raw = <<>>
    /\ result = NotCalled
    /\ InitScheduler

\* One execution of r_cmd on command text r in chat chat_id, where dateparser
\* resolves the phrase to the instant when, lag ticks elapse between
\* datetime.now() and the job queue's own clock read, and timer_ok and
\* confirm_ok say whether run_once and the confirmation reply go through.
Handle(r, chat_id, when, lag, timer_ok, confirm_ok) ==
    LET parse == Resolved[r]
        now_utc == clock
        delay_seconds == when - now_utc
        outcome == Outcome(parse, delay_seconds, timer_ok, confirm_ok)
        registers == ReachesRunOnce(parse, delay_seconds) /\ timer_ok
    IN  /\ Len(jobs) < MaxJobs
        /\ clock' = clock + lag
        /\ jobs' = IF registers
                   THEN Append(jobs, RunOnce(delay_seconds, chat_id,
                            parse.msg, JobName(chat_id, when), when,
                            clock + lag))
                   ELSE jobs
        /\ last' = [ handled   |-> TRUE,
                     outcome   |-> outcome,
                     delay     |-> IF parse.kind = "ok"
                                   THEN delay_seconds ELSE 0,
                     reply     |-> Reply(outcome),
                     scheduled |-> jobs' # jobs,
                     raised    |-> Raised(outcome) ]
        /\ UNCHANGED <<raw, result, delivered>>

\* r_cmd on a text the resolver rejects
RCmdUnparsed ==
    \E r \in Requests :
        /\ Resolved[r].kind # "ok"
        /\ Handle(r, 1, 0, 0, TRUE, TRUE)

\* r_cmd on a text resolved to an instant too close to now, or past
RCmdTooSoon ==
    \E r \in Requests, when \in Instants :
        /\ Resolved[r].kind = "ok"
        /\ TooSoon(when - clock)
        /\ Handle(r, 1, when, 0, TRUE, TRUE)

\* r_cmd on a text resolved to an instant far enough ahead
RCmdAhead ==
    \E r \in Requests, chat_id \in ChatIds, when \in Instants,
       lag \in 0..MaxLag, timer_ok, confirm_ok \in BOOLEAN :
        /\ Resolved[r].kind = "ok"
        /\ ~TooSoon(when - clock)
        /\ timer_ok \/ confirm_ok
        /\ Handle(r, chat_id, when, lag, timer_ok, confirm_ok)

RCmd == RCmdUnparsed \/ RCmdTooSoon \/ RCmdAhead

-----------------------------------------------------------------------------
(* the job queue's timer and _send_reminder *)

Pending(i) == jobs[i].state = "Pending"

Due(i) == Pending(i) /\ jobs[i].due <= clock

\* the job after its callback ran: a one-shot job is done, a repeating job
\* waits for its next run
AfterRun(job) ==
    IF job.interval = 0
    THEN [job EXCEPT !.state = "Fired", !.runs = @ + 1]
    ELSE [job EXCEPT !.due = @ + job.interval, !.runs = @ + 1]

\* The timer runs the due job with the earliest run time: _send_reminder is
\* called with the job and sends its message to its chat.
SendReminder(i) ==
    /\ Due(i)
    /\ \A k \in 1..Len(jobs) : Due(k) => jobs[i].due <= jobs[k].due
    /\ delivered' = Append(delivered, i)
    /\ jobs' = [jobs EXCEPT ![i] = AfterRun(@)]
    /\ UNCHANGED <<raw, result, clock, last>>

Fire == \E i \in 1..Len(jobs) : SendReminder(i)

\* time passes; the timer lets no due job wait
Tick ==
    /\ clock < MaxClock
    /\ \A i \in 1..Len(jobs) : ~Due(i)
    /\ clock' = clock + 1
    /\ UNCHANGED <<raw, result, jobs, delivered, last>>

Next == RCmd \/ Fire \/ Tick

Spec == Init /\ [][Next]_vars

\* the timer is reliable: time passes and due jobs are run
FairSpec == Spec /\ WF_vars(Tick) /\ WF_vars(Fire)

-----------------------------------------------------------------------------
(* the resolver alone, on every command text up to MaxLen characters *)

Inputs == UNION {[1..n -> Chars] : n \in 0..MaxLen}

InitResolve ==
    /\ raw \in Inputs
    /\ result = NotCalled
    /\ InitScheduler

Resolve ==
    /\ result = NotCalled
    /\ result' = ParseWhenAndMessage(raw)
    /\ UNCHANGED <<raw, clock, jobs, delivered, last>>

ResolveSpec == InitResolve /\ [][Resolve]_vars

-----------------------------------------------------------------------------
(* Properties of the resolver, checked under ResolveSpec *)

\* the command text of the input the resolver was called on
Text == CommandText(raw)

\* index i holds the first separator of the text
FirstSeparator(i) ==
    /\ i \in 1..Len(Text)
    /\ Text[i] = "|"
    /\ \A k \in 1..(i - 1) : Text[k] # "|"

BeforeSeparator(i) == Strip(SubSeq(Text, 1, i - 1))

AfterSeparator(i) == Strip(SubSeq(Text, i + 1, Len(Text)))

\* C5: with a separator, a date/time phrase before the first separator and
\* non-blank text after it, the resolver succeeds, the message is the trimmed
\* text after the first separator (later separators stay in the message) and
\* the matched phrase is the trimmed segment before it.
C5_DelimitedMessage ==
    result # NotCalled =>
        \A i \in 1..Len(Text) :
            ( /\ FirstSeparator(i)
              /\ BeforeSeparator(i) \in DatePhrases
              /\ AfterSeparator(i) # <<>> )
            => /\ result.kind = "ok"
               /\ result.msg = AfterSeparator(i)
               /\ result.human_when = BeforeSeparator(i)

\* C5 witness: a delimited input resolved to a message that itself holds a
\* separator
C5_Witness ==
    /\ result.kind = "ok"
    /\ Contains(Text, "|")
    /\ Contains(result.msg, "|")

\* C6: with a separator whose preceding segment is not a date/time phrase,
\* the resolver fails with a parse error; it does not search the text.
C6_NoFallbackWithSeparator ==
    result # NotCalled =>
        \A i \in 1..Len(Text) :
            (FirstSeparator(i) /\ BeforeSeparator(i) \notin DatePhrases)
            => result.kind \in ParseErrors

\* C6 witness: the resolver rejected a delimited input whose message holds a
\* date/time phrase
C6_Witness ==
    /\ result.kind = "unparseable"
    /\ \E i \in 1..Len(Text) :
           FirstSeparator(i) /\ AfterSeparator(i) \in DatePhrases

\* a date/time phrase occurs in the text at index i and none starts earlier
FirstPhraseAt(i) ==
    /\ \E p \in DatePhrases : OccursAt(Text, i, p)
    /\ \A k \in 1..(i - 1) : \A p \in DatePhrases : ~OccursAt(Text, k, p)

\* the text without the n characters that start at index i
WithoutOccurrence(i, n) ==
    SubSeq(Text, 1, i - 1) \o SubSeq(Text, i + n, Len(Text))

\* C7: without a separator and with a date/time phrase in the text, the
\* resolver succeeds with the first match, and the message is the text with
\* that occurrence removed, trimmed of boundary punctuation and whitespace
\* (the placeholder when nothing is left); the rest of the text is kept.
C7_ImplicitMessage ==
    (result # NotCalled /\ ~Contains(Text, "|")) =>
        \A i \in 1..Len(Text) :
            FirstPhraseAt(i) =>
                LET rest == StripChars(
                                WithoutOccurrence(i, Len(result.human_when)),
                                BoundaryChars)
                IN  /\ result.kind = "ok"
                    /\ OccursAt(Text, i, result.human_when)
                    /\ result.msg = IF rest = <<>> THEN Placeholder ELSE rest

-----------------------------------------------------------------------------
(* Properties of r_cmd and the timer, checked under Spec and FairSpec *)

\* C1: a resolved request is rejected as too soon or past exactly when the
\* instant is less than 5 seconds after now, and a request that registers a
\* job has a delay of at least 5 seconds.
C1_MinimumDelay ==
    /\ (last.handled /\ last.outcome # "ParseError") =>
           (last.delay < MinDelaySeconds * Res
                <=> last.outcome = "ValidationError")
    /\ last.scheduled => last.delay >= MinDelaySeconds * Res

\* C1 witness: a job was registered with a delay of exactly 5 seconds
C1_Witness ==
    /\ last.scheduled
    /\ last.delay = MinDelaySeconds * Res

\* how many times job i occurs in the deliveries
Deliveries(i) == Cardinality({p \in 1..Len(delivered) : delivered[p] = i})

\* C2: a registered job is delivered at most once, is Fired exactly when it
\* was delivered, stays as it is once Fired, is never given another run time
\* and, with a reliable timer, is eventually Fired: from some time on every
\* registered job is Fired (jobs are never taken off the list).
C2_OneShot ==
    /\ [](\A i \in 1..Len(jobs) :
            /\ Deliveries(i) <= 1
            /\ jobs[i].runs = Deliveries(i)
            /\ jobs[i].state = "Fired" <=> Deliveries(i) = 1
            /\ jobs[i].state \in {"Pending", "Fired"})
    /\ [][\A i \in 1..Len(jobs) :
            /\ i <= Len(jobs')
            /\ jobs'[i].due = jobs[i].due
            /\ jobs[i].state = "Fired" => jobs'[i] = jobs[i]]_vars
    /\ <>[](\A i \in 1..Len(jobs) : jobs[i].state = "Fired")

\* C2 witness: a job was delivered and time went on past its run time
C2_Witness ==
    /\ Len(jobs) >= 1
    /\ jobs[1].state = "Fired"
    /\ Deliveries(1) = 1
    /\ clock > jobs[1].due

\* C3: a request that fails in the resolver or in the delay check leaves the
\* registered jobs as they were.
C3_FailureLeavesJobs ==
    last.outcome \in {"ParseError", "ValidationError"} => ~last.scheduled

\* C3 witness: a request failed the delay check while a job was registered
C3_Witness ==
    /\ last.outcome = "ValidationError"
    /\ Len(jobs) >= 1

\* C4: when run_once raises, the user is not told the input was not
\* understood: the error leaves r_cmd as an infrastructure error or is
\* reported as one.
C4_RegistrationErrorSurfaced ==
    last.outcome = "RegistrationError" =>
        \/ last.raised = "RegistrationError"
        \/ last.reply \notin {"not_understood", "confirmation"}

\* C8 as stated: the job name is the same for the same chat and instant, and
\* differs whenever the chat or the instant differs.
C8_NameSeparatesInstants ==
    \A i, j \in 1..Len(jobs) :
        jobs[i].name = jobs[j].name
            <=> (jobs[i].chat_id = jobs[j].chat_id
                    /\ jobs[i].when = jobs[j].when)

\* C8 amended: two job names are equal exactly when the chats are equal and
\* the instants lie in the same whole second; a request that gets to run_once
\* and is not refused by it registers its job whatever names are in use; and
\* every job, colliding or not, is kept and is Fired exactly when it was
\* delivered itself.
C8_NameSeparatesSeconds ==
    /\ \A i, j \in 1..Len(jobs) :
          jobs[i].name = jobs[j].name
              <=> (jobs[i].chat_id = jobs[j].chat_id
                      /\ jobs[i].when \div Res = jobs[j].when \div Res)
    /\ last.outcome \in {"none", "ReplyError"} /\ last.handled
          => last.scheduled
    /\ \A i \in 1..Len(jobs) :
          jobs[i].state = "Fired" <=> Deliveries(i) = 1

\* C8 witness: two jobs for different instants share a name, and both were
\* delivered
C8_Witness ==
    \E i, j \in 1..Len(jobs) :
        /\ i # j
        /\ jobs[i].name = jobs[j].name
        /\ jobs[i].when # jobs[j].when
        /\ Deliveries(i) = 1
        /\ Deliveries(j) = 1

\* C9: deliveries follow the order of the trigger instants: no job is
\* delivered after a job with a later trigger instant.
C9_NaturalTimeOrder ==
    \A p, q \in 1..Len(delivered) :
        p < q => jobs[delivered[p]].when <= jobs[delivered[q]].when

\* C10: a request answered "not understood" registered no job, and a job is
\* registered only by a request answered with the confirmation.
C10_ReplyAgrees ==
    /\ last.reply = "not_understood" => ~last.scheduled
    /\ last.scheduled => last.reply = "confirmation"

====
